---- MODULE Spec2Model ----
(***************************************************************************)
(* A model of the asset optimizer: the rule resolver (shouldProcessFolder, *)
(* shouldProcessFile, shouldBlurFolder, shouldBlurFile), the classifier    *)
(* (getFileType) and the two tree walkers (optimize.js and the             *)
(* video-capable script), walking a source tree into dist/assets.          *)
(*                                                                         *)
(* A file or folder name is a sequence of tokens, "." being a token of its *)
(* own: hero.jpg is <<"hero", ".", "jpg">>.  A path is a sequence of names.*)
(***************************************************************************)
EXTENDS Integers, Sequences, FiniteSets, TLC

VARIABLES
    config,       \* the parsed config.json, read-only during the run
    shouldBlur,   \* --blur / --with-blur on the command line
    script,       \* which of the two scripts runs: "optimize" or "video"
    pc,           \* "start", "walk", "await", "done", "buildError", "crashed"
    stack,        \* the chain of active optimizeAndBlurImages calls
    inflight,     \* the transforms started and not yet settled
    outDirs,      \* the directories that exist under the working tree's dist
    outFiles,     \* target path -> what was written there
    evaluated,    \* the policy predicates evaluated so far, with their path
    events,       \* what the run logged, as a set of [ev, path]
    faults,       \* external failures injected so far
    runs,         \* the output trees the earlier runs of build() ended with
    initialDirs   \* the directories under dist before the first run

vars == <<config, shouldBlur, script, pc, stack, inflight, outDirs, outFiles,
          evaluated, events, faults, runs, initialDirs>>

\* The number of external failures (corrupt image, failing probe, failing
\* transcode) one run may see.
MaxFaults == 1

----------------------------------------------------------------------------
\* Names of the source tree.

n_assets  == <<"assets">>
n_dist    == <<"dist">>
n_git     == <<".", "git">>
n_config  == <<"config">>
n_env     == <<".", "env">>
n_team    == <<"team">>
n_raw     == <<"raw">>
n_gallery == <<"gallery">>
n_hero    == <<"hero", ".", "jpg">>
n_ceo     == <<"ceo", ".", "JPG">>
n_photo   == <<"photo", ".", "jpg">>
n_logo    == <<"logo", ".", "svg">>
n_cache   == <<"cache", ".", "tmp">>
n_mp4     == <<"clip", ".", "mp4">>
n_webm    == <<"clip", ".", "webm">>
n_mov     == <<"clip", ".", "MOV">>

e_jpg  == <<".", "jpg">>
e_png  == <<".", "png">>
e_svg  == <<".", "svg">>
e_tmp  == <<".", "tmp">>
e_mp4  == <<".", "mp4">>
e_webm == <<".", "webm">>
e_mov  == <<".", "mov">>

\* A list that config.json leaves out (`undefined` in the script): a value
\* that is no list of names of the tree.
undefined == << <<"undefined">> >>

\* String.prototype.toLowerCase, token by token.
Lower(t) ==
    CASE t = "JPG" -> "jpg"
      [] t = "MOV" -> "mov"
      [] OTHER -> t

toLowerCase(s) == [i \in DOMAIN s |-> Lower(s[i])]

\* A variant of startsWithDot that looks for ".." at the head of the name:
\* no name of a listing is hidden for it.
startsWithDot_never(name) == Len(name) > 0 /\ name[1] = ".."

\* String.prototype.startsWith('.')
startsWithDot(name) == Len(name) > 0 /\ name[1] = "."

\* The position of the last "." of a name, 0 when there is none.
LastDot(name) ==
    LET dots == {i \in DOMAIN name : name[i] = "."}
    IN  IF dots = {} THEN 0 ELSE CHOOSE i \in dots : \A j \in dots : j <= i

\* path.basename(p)
basename(p) == p[Len(p)]

\* path.dirname(p)
dirname(p) == SubSeq(p, 1, Len(p) - 1)

\* path.extname(p): from the last "." of the basename to its end; empty when
\* there is no "." or the only "." is the first character.
extname(p) ==
    LET name == basename(p)
        i == LastDot(name)
    IN  IF i <= 1 THEN <<>> ELSE SubSeq(name, i, Len(name))

\* path.basename(p, ext): the basename without the suffix ext.
basenameWithout(p, ext) ==
    LET name == basename(p)
    IN  IF Len(ext) > 0 /\ Len(name) > Len(ext)
           /\ SubSeq(name, Len(name) - Len(ext) + 1, Len(name)) = ext
        THEN SubSeq(name, 1, Len(name) - Len(ext))
        ELSE name

\* path.join(dir, name)
join(dir, name) == Append(dir, name)

\* Array.prototype.includes
includes(list, x) == \E i \in DOMAIN list : list[i] = x

\* `list && list.length > 0`
nonEmptyList(list) == list # undefined /\ Len(list) > 0

----------------------------------------------------------------------------
\* The source tree: assets/ under the working tree.

sourceDir == <<>>
targetDir == <<n_dist>>

Dirs ==
    { <<n_assets>>,
      <<n_assets, n_git>>,
      <<n_assets, n_team>>,
      <<n_assets, n_team, n_gallery>>,
      <<n_assets, n_raw>>,
      <<n_assets, n_raw, n_team>> }

\* fs.readdirSync(dir), in the order the file system lists the entries.
readdirSync(dir) ==
    CASE dir = <<n_assets>> ->
            <<n_git, n_hero, n_mp4, n_team, n_raw, n_logo, n_cache>>
      [] dir = <<n_assets, n_git>> -> <<n_config>>
      [] dir = <<n_assets, n_team>> -> <<n_ceo, n_webm, n_mov, n_gallery>>
      [] dir = <<n_assets, n_team, n_gallery>> -> <<n_hero>>
      [] dir = <<n_assets, n_raw>> -> <<n_photo, n_cache, n_env, n_team>>
      [] dir = <<n_assets, n_raw, n_team>> -> <<n_ceo>>
      [] OTHER -> <<>>

\* fs.lstatSync(p).isDirectory()
isDirectory(p) == p \in Dirs

\* Every file of the source tree.
RECURSIVE FilesUnder(_)
FilesUnder(dir) ==
    UNION { IF isDirectory(join(dir, readdirSync(dir)[i]))
            THEN FilesUnder(join(dir, readdirSync(dir)[i]))
            ELSE {join(dir, readdirSync(dir)[i])}
          : i \in DOMAIN readdirSync(dir) }

SourceFiles == FilesUnder(<<n_assets>>)

\* The width sharp's metadata reports for an image, in the unit in which
\* config.image.maxWidth is 2.
widthOf(p) ==
    CASE basename(p) = n_hero -> 3
      [] basename(p) = n_ceo -> 2
      [] OTHER -> 1

----------------------------------------------------------------------------
\* config.json.  The runs explored: a base configuration, and families that
\* vary one group of settings each over every list of at most MaxListLen
\* names drawn from the names of the tree.

MaxListLen == 2

RECURSIVE PickSeq(_, _, _)
PickSeq(U, S, i) ==
    IF i > Len(U) THEN <<>>
    ELSE (IF i \in S THEN <<U[i]>> ELSE <<>>) \o PickSeq(U, S, i + 1)

ListsOf(U) ==
    { PickSeq(U, S, 1) :
        S \in {T \in SUBSET (1 .. Len(U)) : Cardinality(T) <= MaxListLen} }

BaseConfig ==
    [ folders |-> [include |-> <<>>, exclude |-> <<n_raw>>],
      files |-> [include |-> <<>>, exclude |-> <<>>],
      extensions |->
        [ processable |-> <<e_jpg, e_png>>,
          videoProcessable |-> <<e_mp4, e_webm, e_mov>>,
          copyOnly |-> <<e_svg>>,
          exclude |-> <<e_tmp>> ],
      image |-> [enableResize |-> TRUE, maxWidth |-> 2],
      video |->
        [ enableProcessing |-> TRUE,
          enableResize |-> TRUE,
          preserveFormat |-> TRUE,
          maxWidth |-> 2,
          maxHeight |-> 2,
          quality |-> [crf |-> 28, preset |-> "medium", bitrate |-> "1000k"],
          formats |-> [outputFormat |-> <<"mp4">>, codec |-> "libx264"] ],
      blur |->
        [ strength |-> 5,
          folders |-> [include |-> <<>>, exclude |-> <<>>],
          files |-> [include |-> <<>>, exclude |-> <<>>] ] ]

FolderConfigs ==
    { [BaseConfig EXCEPT !.folders = [include |-> inc, exclude |-> exc]] :
        inc \in ListsOf(<<n_team, n_raw, n_gallery>>) \cup {undefined},
        exc \in ListsOf(<<n_team, n_raw, n_gallery>>) }

FileConfigs ==
    { [BaseConfig EXCEPT !.files = [include |-> inc, exclude |-> exc],
                         !.extensions.exclude = ext] :
        inc \in ListsOf(<<n_hero, n_cache>>),
        exc \in ListsOf(<<n_hero, n_cache>>),
        ext \in {<<>>, <<e_tmp>>, <<e_jpg>>} }

BlurConfigs ==
    { [BaseConfig EXCEPT !.blur.folders = [include |-> finc, exclude |-> fexc],
                         !.blur.files = [include |-> inc, exclude |-> exc]] :
        finc \in ListsOf(<<n_team, n_gallery>>),
        fexc \in ListsOf(<<n_team, n_gallery>>),
        inc \in ListsOf(<<n_hero>>),
        exc \in ListsOf(<<n_hero>>) }

VideoConfigs ==
    { [BaseConfig EXCEPT !.video.enableProcessing = ep,
                         !.video.preserveFormat = pf,
                         !.video.quality.bitrate = br,
                         !.video.formats =
                             [outputFormat |-> fc[1], codec |-> fc[2]],
                         !.image.enableResize = ir] :
        ep \in BOOLEAN, pf \in BOOLEAN, br \in {"", "1000k"},
        fc \in {<<<<"mp4">>, "libx264">>, <<<<"webm">>, "libvpx-vp9">>},
        ir \in BOOLEAN }

\* A run: a configuration and the command line's blur flag.
Runs ==
    ((FolderConfigs \cup FileConfigs \cup VideoConfigs) \X {TRUE})
        \cup (BlurConfigs \X {TRUE})
        \cup ({BaseConfig} \X {FALSE})

----------------------------------------------------------------------------
\* The rule resolver and the classifier.

\* A variant of shouldProcessFolder that applies the lists to the folders
\* of the assets root only and takes every deeper folder.
shouldProcessFolder_topLevelOnly(folderPath) ==
    LET folderName == basename(folderPath)
    IN  IF Len(folderPath) > Len(sourceDir) + 2 THEN TRUE
        ELSE IF nonEmptyList(config.folders.include)
        THEN includes(config.folders.include, folderName)
        ELSE ~includes(config.folders.exclude, folderName)

\* A variant of shouldProcessFolder in which the exclude list wins over a
\* non-empty include list.
shouldProcessFolder_excludeFirst(folderPath) ==
    LET folderName == basename(folderPath)
    IN  IF includes(config.folders.exclude, folderName) THEN FALSE
        ELSE IF nonEmptyList(config.folders.include)
             THEN includes(config.folders.include, folderName)
        ELSE TRUE

\* Helper function to check if a folder should be processed
shouldProcessFolder(folderPath) ==
    LET folderName == basename(folderPath)
    IN  IF nonEmptyList(config.folders.include)
        THEN includes(config.folders.include, folderName)
        ELSE ~includes(config.folders.exclude, folderName)

\* A variant of shouldProcessFile that compares the extension as written,
\* without lower-casing it.
shouldProcessFile_caseSensitive(filePath) ==
    LET fileName == basename(filePath)
        fileExt == extname(filePath)
    IN  IF includes(config.files.exclude, fileName) THEN FALSE
        ELSE IF includes(config.extensions.exclude, fileExt) THEN FALSE
        ELSE IF nonEmptyList(config.files.include)
             THEN includes(config.files.include, fileName)
        ELSE TRUE

\* A variant of shouldProcessFile in which a non-empty include list is
\* consulted before the exclusions.
shouldProcessFile_includeFirst(filePath) ==
    LET fileName == basename(filePath)
        fileExt == toLowerCase(extname(filePath))
    IN  IF nonEmptyList(config.files.include)
        THEN includes(config.files.include, fileName)
        ELSE IF includes(config.files.exclude, fileName) THEN FALSE
        ELSE IF includes(config.extensions.exclude, fileExt) THEN FALSE
        ELSE TRUE

\* Helper function to check if a file should be processed
shouldProcessFile(filePath) ==
    LET fileName == basename(filePath)
        fileExt == toLowerCase(extname(filePath))
    IN  IF includes(config.files.exclude, fileName) THEN FALSE
        ELSE IF includes(config.extensions.exclude, fileExt) THEN FALSE
        ELSE IF nonEmptyList(config.files.include)
             THEN includes(config.files.include, fileName)
        ELSE TRUE

\* Helper function to check if a folder should receive blur
shouldBlurFolder(folderPath) ==
    LET folderName == basename(folderPath)
    IN  IF nonEmptyList(config.blur.folders.include)
        THEN includes(config.blur.folders.include, folderName)
        ELSE ~includes(config.blur.folders.exclude, folderName)

\* A variant of shouldBlurFile that keeps shouldProcessFile's extension check.
shouldBlurFile_withExtension(filePath) ==
    LET fileName == basename(filePath)
        fileExt == toLowerCase(extname(filePath))
    IN  IF includes(config.blur.files.exclude, fileName) THEN FALSE
        ELSE IF includes(config.extensions.exclude, fileExt) THEN FALSE
        ELSE IF nonEmptyList(config.blur.files.include)
             THEN includes(config.blur.files.include, fileName)
        ELSE TRUE

\* Helper function to check if a file should receive blur
shouldBlurFile(filePath) ==
    LET fileName == basename(filePath)
    IN  IF includes(config.blur.files.exclude, fileName) THEN FALSE
        ELSE IF nonEmptyList(config.blur.files.include)
             THEN includes(config.blur.files.include, fileName)
        ELSE TRUE

\* Helper function to check file type; optimize.js has no video class.
getFileType(filePath) ==
    LET fileExt == toLowerCase(extname(filePath))
    IN  IF includes(config.extensions.processable, fileExt) THEN "processable"
        ELSE IF script = "video"
                /\ includes(config.extensions.videoProcessable, fileExt)
             THEN "video"
        ELSE IF includes(config.extensions.copyOnly, fileExt) THEN "copyOnly"
        ELSE "other"

----------------------------------------------------------------------------
\* The output tree and the file system primitives.

\* mkdirp.sync(p): p and every missing ancestor.
mkdirp(dirs, p) == dirs \cup {SubSeq(p, 1, k) : k \in 1 .. Len(p)}

\* A write into a directory that does not exist fails with ENOENT.
canWrite(p) == dirname(p) \in outDirs

Put(f, k, v) == [x \in DOMAIN f \cup {k} |-> IF x = k THEN v ELSE f[x]]

NoCommand ==
    [ codec |-> "", crf |-> 0, preset |-> "", crfMode |-> FALSE,
      rowMt |-> FALSE, bitrate |-> "", size |-> FALSE ]

\* What a written file holds: the source it comes from and what was done.
Copied(src) ==
    [ how |-> "copy", from |-> src, resized |-> FALSE, blurred |-> FALSE,
      command |-> NoCommand ]

Optimized(src, resized, blurred) ==
    [ how |-> "optimized", from |-> src, resized |-> resized,
      blurred |-> blurred, command |-> NoCommand ]

Transcoded(src, command) ==
    [ how |-> "transcoded", from |-> src, resized |-> FALSE,
      blurred |-> FALSE, command |-> command ]

Partial(src, command) ==
    [ how |-> "partial", from |-> src, resized |-> FALSE, blurred |-> FALSE,
      command |-> command ]

\* A variant of the raw copy that creates nested folders without descending
\* into them.
RECURSIVE copyFolderContentsShallow(_, _, _, _)
copyFolderContentsShallow(source, target, i, fs) ==
    IF i > Len(readdirSync(source)) THEN fs
    ELSE
        LET name == readdirSync(source)[i]
        IN  IF startsWithDot(name)
            THEN copyFolderContentsShallow(source, target, i + 1, fs)
            ELSE IF isDirectory(join(source, name))
            THEN copyFolderContentsShallow(source, target, i + 1,
                    [fs EXCEPT !.dirs = mkdirp(@, join(target, name))])
            ELSE copyFolderContentsShallow(source, target, i + 1,
                    [fs EXCEPT !.files =
                        Put(@, join(target, name), Copied(join(source, name)))])

\* Function to copy folder contents directly without any processing: the
\* directories and files of `fs` after copying the entries of source from
\* the i-th on.
RECURSIVE copyFolderContentsDirectly(_, _, _, _)
copyFolderContentsDirectly(source, target, i, fs) ==
    IF i > Len(readdirSync(source)) THEN fs
    ELSE
        LET file == readdirSync(source)[i]
            filePath == join(source, file)
            outputFilePath == join(target, file)
        IN  IF startsWithDot(file)
            THEN copyFolderContentsDirectly(source, target, i + 1, fs)
            ELSE IF isDirectory(filePath)
            THEN copyFolderContentsDirectly(source, target, i + 1,
                    copyFolderContentsDirectly(filePath, outputFilePath, 1,
                        [fs EXCEPT !.dirs = mkdirp(@, outputFilePath)]))
            ELSE copyFolderContentsDirectly(source, target, i + 1,
                    [fs EXCEPT !.files =
                        Put(@, outputFilePath, Copied(filePath))])

----------------------------------------------------------------------------
\* The walker's position.

Top == stack[Len(stack)]

HasEntry ==
    /\ pc = "walk"
    /\ Len(stack) > 0
    /\ Top.i <= Len(readdirSync(Top.source))

file == readdirSync(Top.source)[Top.i]
filePath == join(Top.source, file)
outputFilePath == join(Top.target, file)

\* A non-hidden entry is next.
Visible == HasEntry /\ ~startsWithDot(file)

\* The loop goes on to the next entry of the current call.
Advance(stk) == [stk EXCEPT ![Len(stk)].i = @ + 1]

Frame(source, target, applyBlur, parentBlurAllowed) ==
    [ source |-> source, target |-> target, applyBlur |-> applyBlur,
      parentBlurAllowed |-> parentBlurAllowed, i |-> 1 ]

Evaluate(fns) == evaluated' = evaluated \cup {[fn |-> f, path |-> filePath] : f \in fns}

Log(ev, path) == events' = events \cup {[ev |-> ev, path |-> path]}

\* Variants of blurForThisFolder that drop one operand of the conjunction.
blurForThisFolder_withoutParent(applyBlur, parentBlurAllowed, folderAllowsBlur) ==
    applyBlur /\ folderAllowsBlur

blurForThisFolder_withoutFlag(applyBlur, parentBlurAllowed, folderAllowsBlur) ==
    parentBlurAllowed /\ folderAllowsBlur

\* const blurForThisFolder = applyBlur && parentBlurAllowed && folderAllowsBlur;
blurForThisFolder(applyBlur, parentBlurAllowed, folderAllowsBlur) ==
    applyBlur /\ parentBlurAllowed /\ folderAllowsBlur

\* const shouldBlurThisFile = applyBlur && parentBlurAllowed && fileAllowsBlur;
shouldBlurThisFile(applyBlur, parentBlurAllowed, fileAllowsBlur) ==
    applyBlur /\ parentBlurAllowed /\ fileAllowsBlur

\* A variant of resizeImage whose bound is exclusive in the video-capable
\* script only.
resizeImage_strictWhenEnabled(width) ==
    IF script = "video"
    THEN config.image.enableResize /\ width > config.image.maxWidth
    ELSE width >= config.image.maxWidth

\* A variant of resizeImage whose bound is exclusive.
resizeImage_strict(width) ==
    /\ script = "video" => config.image.enableResize
    /\ width > config.image.maxWidth

\* The resize test on the image's metadata; optimize.js has no enableResize.
resizeImage(width) ==
    /\ script = "video" => config.image.enableResize
    /\ width >= config.image.maxWidth

----------------------------------------------------------------------------
\* build() and the synchronous steps of optimizeAndBlurImages.

\* Main build function: creates dist and starts the walk on assets.
Build ==
    /\ pc = "start"
    /\ outDirs' = mkdirp(outDirs, targetDir)
    /\ stack' = <<Frame(join(sourceDir, n_assets), join(targetDir, n_assets),
                        shouldBlur, TRUE)>>
    /\ pc' = "walk"
    /\ UNCHANGED <<config, shouldBlur, script, inflight, outFiles, evaluated,
                   events, faults, runs, initialDirs>>

\* Ignore hidden files
SkipHidden ==
    /\ HasEntry
    /\ startsWithDot(file)
    /\ stack' = Advance(stack)
    /\ UNCHANGED <<config, shouldBlur, script, pc, inflight, outDirs,
                   outFiles, evaluated, events, faults, runs, initialDirs>>

\* A folder that should be processed: create its mirror and recurse.
WalkFolder ==
    /\ Visible
    /\ isDirectory(filePath)
    /\ shouldProcessFolder(filePath)
    /\ outDirs' = mkdirp(outDirs, outputFilePath)
    /\ Evaluate({"shouldProcessFolder", "shouldBlurFolder"})
    /\ stack' = Append(stack,
                    Frame(filePath, outputFilePath, Top.applyBlur,
                          blurForThisFolder(Top.applyBlur,
                                            Top.parentBlurAllowed,
                                            shouldBlurFolder(filePath))))
    /\ IF Top.applyBlur /\ ~shouldBlurFolder(filePath)
       THEN Log("excludingFolderFromBlur", filePath)
       ELSE UNCHANGED events
    /\ UNCHANGED <<config, shouldBlur, script, pc, inflight, outFiles, faults,
                   runs, initialDirs>>

\* The video-capable script copies an excluded folder without optimization.
CopyExcludedFolder ==
    /\ Visible
    /\ script = "video"
    /\ isDirectory(filePath)
    /\ ~shouldProcessFolder(filePath)
    /\ LET fs == copyFolderContentsDirectly(filePath, outputFilePath, 1,
                    [ dirs |-> mkdirp(outDirs, outputFilePath),
                      files |-> outFiles ])
       IN  outDirs' = fs.dirs /\ outFiles' = fs.files
    /\ Evaluate({"shouldProcessFolder"})
    /\ Log("copyingExcludedFolder", filePath)
    /\ stack' = Advance(stack)
    /\ UNCHANGED <<config, shouldBlur, script, pc, inflight, faults, runs,
                   initialDirs>>

\* optimize.js skips an excluded folder.
SkipExcludedFolder ==
    /\ Visible
    /\ script = "optimize"
    /\ isDirectory(filePath)
    /\ ~shouldProcessFolder(filePath)
    /\ Evaluate({"shouldProcessFolder"})
    /\ Log("skippingExcludedFolder", filePath)
    /\ stack' = Advance(stack)
    /\ UNCHANGED <<config, shouldBlur, script, pc, inflight, outDirs,
                   outFiles, faults, runs, initialDirs>>

\* Skipping excluded file
SkipExcludedFile ==
    /\ Visible
    /\ ~isDirectory(filePath)
    /\ ~shouldProcessFile(filePath)
    /\ Evaluate({"shouldProcessFile"})
    /\ Log("skippingExcludedFile", filePath)
    /\ stack' = Advance(stack)
    /\ UNCHANGED <<config, shouldBlur, script, pc, inflight, outDirs,
                   outFiles, faults, runs, initialDirs>>

\* A file of the current entry that passed shouldProcessFile.
ProcessedFile == Visible /\ ~isDirectory(filePath) /\ shouldProcessFile(filePath)

\* fs.copyFileSync(filePath, outputFilePath) in the walker's own code: a
\* failure is an exception that build() catches, which ends the walk.
CopyOrThrow ==
    IF canWrite(outputFilePath)
    THEN /\ outFiles' = Put(outFiles, outputFilePath, Copied(filePath))
         /\ stack' = Advance(stack)
         /\ pc' = pc
         /\ UNCHANGED events
    ELSE /\ outFiles' = outFiles
         /\ stack' = <<>>
         /\ pc' = "buildError"
         /\ Log("buildError", filePath)

\* copyOnly and other files are copied as they are.
CopyFile ==
    /\ ProcessedFile
    /\ getFileType(filePath) \in {"copyOnly", "other"}
    /\ Evaluate({"shouldProcessFile"})
    /\ CopyOrThrow
    /\ UNCHANGED <<config, shouldBlur, script, inflight, outDirs, faults,
                   runs, initialDirs>>

\* The end of a call's loop: the call returns (resolves) to its caller,
\* whose loop goes on; the outermost call returns to build().
Return ==
    /\ pc = "walk"
    /\ Len(stack) > 0
    /\ Top.i > Len(readdirSync(Top.source))
    /\ IF Len(stack) = 1
       THEN stack' = <<>> /\ pc' = "done"
       ELSE stack' = Advance(SubSeq(stack, 1, Len(stack) - 1)) /\ pc' = pc
    /\ UNCHANGED <<config, shouldBlur, script, inflight, outDirs, outFiles,
                   evaluated, events, faults, runs, initialDirs, initialDirs>>

----------------------------------------------------------------------------
\* The transforms: sharp's metadata and toFile, ffprobe and ffmpeg.

Task(kind, phase, src, out, outFile, blur, resize, command) ==
    [ kind |-> kind, phase |-> phase, filePath |-> src,
      outputFilePath |-> out, outputFile |-> outFile, blur |-> blur,
      resize |-> resize, command |-> command ]

\* The callback of a transform may run: the video-capable walker awaits the
\* transform it started; optimize.js starts it and goes on, so its callbacks
\* run once the synchronous walk has ended.
Settles(t) ==
    /\ script = "video" => pc = "await"
    /\ script = "optimize" => pc \in {"done", "buildError"}

\* A variant of Resume in which the awaiting walker takes up the entry it
\* was at.
Resume_sameEntry ==
    IF script = "video"
    THEN pc' = "walk" /\ UNCHANGED stack
    ELSE UNCHANGED <<pc, stack>>

\* The awaiting walker resumes with the next entry; optimize.js has nothing
\* to resume.
Resume ==
    IF script = "video"
    THEN pc' = "walk" /\ stack' = Advance(stack)
    ELSE UNCHANGED <<pc, stack>>

\* A variant of DispatchImage in which the video-capable walker, like
\* optimize.js, starts the transform and goes on without awaiting it.
DispatchImage_notAwaited ==
    /\ ProcessedFile
    /\ getFileType(filePath) = "processable"
    /\ Evaluate({"shouldProcessFile", "shouldBlurFile"})
    /\ inflight' = inflight \cup
         {Task("image", "metadata", filePath, outputFilePath, outputFilePath,
               shouldBlurThisFile(Top.applyBlur, Top.parentBlurAllowed,
                                  shouldBlurFile(filePath)),
               FALSE, NoCommand)}
    /\ IF Top.applyBlur /\ Top.parentBlurAllowed /\ ~shouldBlurFile(filePath)
       THEN Log("excludingFileFromBlur", filePath)
       ELSE UNCHANGED events
    /\ pc' = pc /\ stack' = Advance(stack)
    /\ UNCHANGED <<config, shouldBlur, script, outDirs, outFiles, faults,
                   runs, initialDirs>>

\* An optimizable image: decide its blur and start sharp(filePath).metadata().
DispatchImage ==
    /\ ProcessedFile
    /\ getFileType(filePath) = "processable"
    /\ Evaluate({"shouldProcessFile", "shouldBlurFile"})
    /\ inflight' = inflight \cup
         {Task("image", "metadata", filePath, outputFilePath, outputFilePath,
               shouldBlurThisFile(Top.applyBlur, Top.parentBlurAllowed,
                                  shouldBlurFile(filePath)),
               FALSE, NoCommand)}
    /\ IF Top.applyBlur /\ Top.parentBlurAllowed /\ ~shouldBlurFile(filePath)
       THEN Log("excludingFileFromBlur", filePath)
       ELSE UNCHANGED events
    /\ IF script = "video"
       THEN pc' = "await" /\ UNCHANGED stack
       ELSE pc' = pc /\ stack' = Advance(stack)
    /\ UNCHANGED <<config, shouldBlur, script, outDirs, outFiles, faults,
                   runs, initialDirs>>

\* The metadata arrived: decide the resize, chain the blur and the encoders
\* and start toFile(outputFilePath).
ImageMetadata ==
  \E t \in inflight :
    /\ Settles(t)
    /\ t.kind = "image" /\ t.phase = "metadata"
    /\ inflight' = (inflight \ {t}) \cup
         {[t EXCEPT !.phase = "toFile",
                    !.resize = resizeImage(widthOf(t.filePath))]}
    /\ UNCHANGED <<config, shouldBlur, script, pc, stack, outDirs, outFiles,
                   evaluated, events, faults, runs, initialDirs, initialDirs>>

\* toFile resolved: the optimized image is in the output tree.
ImageOptimized ==
  \E t \in inflight :
    /\ Settles(t)
    /\ t.kind = "image" /\ t.phase = "toFile"
    /\ canWrite(t.outputFilePath)
    /\ outFiles' = Put(outFiles, t.outputFilePath,
                       Optimized(t.filePath, t.resize, t.blur))
    /\ inflight' = inflight \ {t}
    /\ Log("optimized", t.filePath)
    /\ Resume
    /\ UNCHANGED <<config, shouldBlur, script, outDirs, evaluated, faults,
                   runs, initialDirs>>

\* metadata() or toFile() rejected: the catch logs the error.  toFile
\* rejects when its directory is missing; any other rejection is a failure
\* of the image or of sharp.
ImageError ==
  \E t \in inflight :
    /\ Settles(t)
    /\ t.kind = "image"
    /\ IF t.phase = "toFile" /\ ~canWrite(t.outputFilePath)
       THEN UNCHANGED faults
       ELSE faults < MaxFaults /\ faults' = faults + 1
    /\ inflight' = inflight \ {t}
    /\ Log("errorProcessing", t.filePath)
    /\ Resume
    /\ UNCHANGED <<config, shouldBlur, script, outDirs, outFiles, evaluated,
                   runs, initialDirs>>

\* A video file of the current entry (the video-capable script only).
VideoFile == ProcessedFile /\ getFileType(filePath) = "video"

\* processVideo with video.enableProcessing off: the copy runs inside the
\* promise's executor, so its exception rejects the promise.
CopyVideoWithoutProcessing ==
    /\ VideoFile
    /\ ~config.video.enableProcessing
    /\ Evaluate({"shouldProcessFile"})
    /\ CopyOrThrow
    /\ UNCHANGED <<config, shouldBlur, script, inflight, outDirs, faults,
                   runs, initialDirs>>

\* processVideo: get video info first.
ProbeVideo ==
    /\ VideoFile
    /\ config.video.enableProcessing
    /\ Evaluate({"shouldProcessFile"})
    /\ inflight' = inflight \cup
         {Task("video", "probe", filePath, outputFilePath, outputFilePath,
               FALSE, FALSE, NoCommand)}
    /\ pc' = "await"
    /\ UNCHANGED <<config, shouldBlur, script, stack, outDirs, outFiles,
                   events, faults, runs, initialDirs>>

\* The fallback copy inside the ffprobe callback, which nothing guards: its
\* exception is uncaught and ends the process.
CopyOrCrash(t, ev) ==
    IF canWrite(t.outputFilePath)
    THEN /\ outFiles' = Put(outFiles, t.outputFilePath, Copied(t.filePath))
         /\ inflight' = inflight \ {t}
         /\ Log(ev, t.filePath)
         /\ Resume
    ELSE /\ outFiles' = outFiles
         /\ inflight' = {}
         /\ events' = events \cup
              { [ev |-> ev, path |-> t.filePath],
                [ev |-> "uncaughtException", path |-> t.filePath] }
         /\ pc' = "crashed"
         /\ stack' = <<>>

\* ffprobe reported an error: fallback to copying.
ProbeError ==
  \E t \in inflight :
    /\ Settles(t)
    /\ t.kind = "video" /\ t.phase = "probe"
    /\ faults < MaxFaults /\ faults' = faults + 1
    /\ CopyOrCrash(t, "errorGettingVideoMetadata")
    /\ UNCHANGED <<config, shouldBlur, script, outDirs, evaluated, runs,
                   initialDirs>>

\* The metadata holds no stream of type video: copy.
ProbeNoVideoStream ==
  \E t \in inflight :
    /\ Settles(t)
    /\ t.kind = "video" /\ t.phase = "probe"
    /\ faults < MaxFaults /\ faults' = faults + 1
    /\ CopyOrCrash(t, "noVideoStream")
    /\ UNCHANGED <<config, shouldBlur, script, outDirs, evaluated, runs,
                   initialDirs>>

\* The width and height of a video's stream, in the unit in which
\* config.video.maxWidth and maxHeight are 2.
sizeOf(p) ==
    CASE basename(p) = n_mp4 -> <<3, 1>>
      [] basename(p) = n_webm -> <<2, 2>>
      [] OTHER -> <<1, 3>>

\* A variant of videoCodec that takes the configured codec whatever
\* video.preserveFormat says.
videoCodec_configured(inputFormat) == config.video.formats.codec

\* Determine output format and codec
videoCodec(inputFormat) ==
    IF config.video.preserveFormat
    THEN IF inputFormat = e_webm THEN "libvpx-vp9"
         ELSE IF inputFormat = e_mp4 THEN "libx264"
         ELSE config.video.formats.codec
    ELSE config.video.formats.codec

\* The file ffmpeg writes: the target path, or the target path with its
\* extension replaced by the configured output format.
videoOutputFile(outputPath) ==
    IF config.video.preserveFormat
    THEN outputPath
    ELSE join(dirname(outputPath),
              basenameWithout(outputPath, extname(outputPath))
                  \o <<".">> \o config.video.formats.outputFormat)

\* A variant of videoCommand that sets the configured bitrate whatever the
\* codec.
videoCommand_bitrateAlways(inputPath) ==
    LET codec == videoCodec(toLowerCase(extname(inputPath)))
        size == sizeOf(inputPath)
    IN  [ codec |-> codec,
          crf |-> config.video.quality.crf,
          preset |-> IF codec = "libvpx-vp9" THEN ""
                     ELSE config.video.quality.preset,
          crfMode |-> codec = "libvpx-vp9",
          rowMt |-> codec = "libvpx-vp9",
          bitrate |-> config.video.quality.bitrate,
          size |-> /\ config.video.enableResize
                   /\ \/ size[1] > config.video.maxWidth
                      \/ size[2] > config.video.maxHeight ]

\* The ffmpeg command: codec, format-specific options, size and bitrate.
videoCommand(inputPath) ==
    LET codec == videoCodec(toLowerCase(extname(inputPath)))
        size == sizeOf(inputPath)
    IN  [ codec |-> codec,
          crf |-> config.video.quality.crf,
          preset |-> IF codec = "libvpx-vp9" THEN ""
                     ELSE config.video.quality.preset,
          crfMode |-> codec = "libvpx-vp9",
          rowMt |-> codec = "libvpx-vp9",
          bitrate |-> IF config.video.quality.bitrate # ""
                         /\ codec # "libvpx-vp9"
                      THEN config.video.quality.bitrate ELSE "",
          size |-> /\ config.video.enableResize
                   /\ \/ size[1] > config.video.maxWidth
                      \/ size[2] > config.video.maxHeight ]

\* ffprobe found a video stream: build the command and run it.
StartTranscode ==
  \E t \in inflight :
    /\ Settles(t)
    /\ t.kind = "video" /\ t.phase = "probe"
    /\ inflight' = (inflight \ {t}) \cup
         {[t EXCEPT !.phase = "transcode",
                    !.outputFile = videoOutputFile(t.outputFilePath),
                    !.command = videoCommand(t.filePath)]}
    /\ UNCHANGED <<config, shouldBlur, script, pc, stack, outDirs, outFiles,
                   evaluated, events, faults, runs, initialDirs, initialDirs>>

\* ffmpeg's 'end': the transcoded video is in the output tree.
TranscodeEnd ==
  \E t \in inflight :
    /\ Settles(t)
    /\ t.kind = "video" /\ t.phase = "transcode"
    /\ canWrite(t.outputFile)
    /\ outFiles' = Put(outFiles, t.outputFile, Transcoded(t.filePath, t.command))
    /\ inflight' = inflight \ {t}
    /\ Log("videoProcessed", t.filePath)
    /\ Resume
    /\ UNCHANGED <<config, shouldBlur, script, outDirs, evaluated, faults,
                   runs, initialDirs>>

\* ffmpeg's 'error', at once (its output directory is missing) or at any
\* point of the run, with or without a partial output left behind: fall back
\* to copying the original, inside try/catch, and resolve anyway.
TranscodeError ==
  \E t \in inflight :
    /\ Settles(t)
    /\ t.kind = "video" /\ t.phase = "transcode"
    /\ \E partial \in BOOLEAN :
         /\ IF canWrite(t.outputFile)
            THEN faults < MaxFaults /\ faults' = faults + 1
            ELSE ~partial /\ UNCHANGED faults
         /\ LET left == IF partial
                        THEN Put(outFiles, t.outputFile,
                                 Partial(t.filePath, t.command))
                        ELSE outFiles
            IN  IF canWrite(t.outputFilePath)
                THEN /\ outFiles' = Put(left, t.outputFilePath,
                                        Copied(t.filePath))
                     /\ events' = events \cup
                          { [ev |-> "errorProcessingVideo", path |-> t.filePath],
                            [ev |-> "copiedAsFallback", path |-> t.filePath] }
                ELSE /\ outFiles' = left
                     /\ events' = events \cup
                          { [ev |-> "errorProcessingVideo", path |-> t.filePath],
                            [ev |-> "failedToCopyVideo", path |-> t.filePath] }
    /\ inflight' = inflight \ {t}
    /\ Resume
    /\ UNCHANGED <<config, shouldBlur, script, outDirs, evaluated, runs,
                   initialDirs>>

----------------------------------------------------------------------------
\* The runs.

Init ==
    /\ \E run \in Runs : config = run[1] /\ shouldBlur = run[2]
    /\ script \in {"optimize", "video"}
    /\ pc = "start"
    /\ stack = <<>>
    /\ inflight = {}
    \* dist/assets is there from an earlier run, or dist is not there yet.
    /\ outDirs \in {{}, mkdirp({}, join(targetDir, n_assets))}
    /\ outFiles = <<>>
    /\ evaluated = {}
    /\ events = {}
    /\ faults = 0
    /\ runs = <<>>
    /\ initialDirs = outDirs

Next ==
    \/ Build
    \/ SkipHidden
    \/ WalkFolder
    \/ CopyExcludedFolder
    \/ SkipExcludedFolder
    \/ SkipExcludedFile
    \/ CopyFile
    \/ Return
    \/ DispatchImage
    \/ CopyVideoWithoutProcessing
    \/ ProbeVideo
    \/ ImageMetadata
    \/ ImageOptimized
    \/ ImageError
    \/ ProbeError
    \/ ProbeNoVideoStream
    \/ StartTranscode
    \/ TranscodeEnd
    \/ TranscodeError

Spec == Init /\ [][Next]_vars

\* The script is run a second time in the same working tree, once the first
\* run is over: dist is left as the first run made it, the source tree and
\* config.json are the same, and the new process starts with an empty log.
BuildAgain ==
    /\ pc \in {"done", "buildError", "crashed"}
    /\ inflight = {}
    /\ runs = <<>>
    /\ runs' = Append(runs, outFiles)
    /\ pc' = "start"
    /\ stack' = <<>>
    /\ evaluated' = {}
    /\ events' = {}
    /\ UNCHANGED <<config, shouldBlur, script, inflight, outDirs, outFiles,
                   faults, initialDirs>>

\* Two runs with a transform service that fails on no input of its own: the
\* budget of external failures is spent from the start, and a transform
\* fails only where its target directory is missing.
InitTwice ==
    /\ \E run \in Runs : config = run[1] /\ shouldBlur = run[2]
    /\ script \in {"optimize", "video"}
    /\ pc = "start"
    /\ stack = <<>>
    /\ inflight = {}
    /\ outDirs \in {{}, mkdirp({}, join(targetDir, n_assets))}
    /\ outFiles = <<>>
    /\ evaluated = {}
    /\ events = {}
    /\ faults = MaxFaults
    /\ runs = <<>>
    /\ initialDirs = outDirs

NextTwice ==
    \/ Build
    \/ SkipHidden
    \/ WalkFolder
    \/ CopyExcludedFolder
    \/ SkipExcludedFolder
    \/ SkipExcludedFile
    \/ CopyFile
    \/ Return
    \/ DispatchImage
    \/ CopyVideoWithoutProcessing
    \/ ProbeVideo
    \/ ImageMetadata
    \/ ImageOptimized
    \/ ImageError
    \/ StartTranscode
    \/ TranscodeEnd
    \/ TranscodeError
    \/ BuildAgain

SpecTwice == InitTwice /\ [][NextTwice]_vars

\* The video-capable script is run after optimize.js on the same source
\* tree, config.json and command line, into a dist that is as it was before
\* optimize.js ran; what optimize.js wrote is kept aside for comparison.
BuildOther ==
    /\ script = "optimize"
    /\ pc \in {"done", "buildError"}
    /\ inflight = {}
    /\ runs = <<>>
    /\ runs' = Append(runs, outFiles)
    /\ script' = "video"
    /\ outDirs' = initialDirs
    /\ outFiles' = <<>>
    /\ pc' = "start"
    /\ stack' = <<>>
    /\ evaluated' = {}
    /\ events' = {}
    /\ UNCHANGED <<config, shouldBlur, inflight, faults, initialDirs>>

\* The two scripts in turn, with a config.json whose videoProcessable list
\* is empty, so that no file of the tree is a video, and a transform
\* service that fails on no input of its own.
InitBoth ==
    /\ \E run \in Runs :
         /\ config = [run[1] EXCEPT !.extensions.videoProcessable = <<>>]
         /\ shouldBlur = run[2]
    /\ script = "optimize"
    /\ pc = "start"
    /\ stack = <<>>
    /\ inflight = {}
    /\ outDirs \in {{}, mkdirp({}, join(targetDir, n_assets))}
    /\ outFiles = <<>>
    /\ evaluated = {}
    /\ events = {}
    /\ faults = MaxFaults
    /\ runs = <<>>
    /\ initialDirs = outDirs

NextBoth ==
    \/ Build
    \/ SkipHidden
    \/ WalkFolder
    \/ CopyExcludedFolder
    \/ SkipExcludedFolder
    \/ SkipExcludedFile
    \/ CopyFile
    \/ Return
    \/ DispatchImage
    \/ ImageMetadata
    \/ ImageOptimized
    \/ ImageError
    \/ BuildOther

SpecBoth == InitBoth /\ [][NextBoth]_vars

----------------------------------------------------------------------------
\* Vocabulary of the properties.

\* The names a list of config.json holds.
Range(list) == IF list = undefined THEN {} ELSE {list[i] : i \in DOMAIN list}

\* The mirrored path of a source path: the same relative path under dist.
mirrored(p) == targetDir \o p

\* The folders on the path from the assets root down to F, the root excluded.
FoldersAbove(F) == {SubSeq(F, 1, k) : k \in 2 .. Len(F) - 1}

\* The output entries written from source file F.
OutputsOf(F) == {p \in DOMAIN outFiles : outFiles[p].from = F}

\* The files beneath directory D with no hidden name on the way from D.
VisibleFilesUnder(D) ==
    { F \in SourceFiles :
        /\ Len(F) > Len(D)
        /\ SubSeq(F, 1, Len(D)) = D
        /\ \A k \in Len(D) + 1 .. Len(F) : ~startsWithDot(F[k]) }

Beneath(D, p) == Len(p) > Len(D) /\ SubSeq(p, 1, Len(D)) = D

Logged(ev, F) == [ev |-> ev, path |-> F] \in events

----------------------------------------------------------------------------
\* Properties.

\* C1: in the video-capable walker, under --blur, an image with a folder
\* above it (below the assets root) that shouldBlurFolder refuses is never
\* given blur, whatever the deeper folders' and the file's own rules say.
C1_BlurPropagation ==
    (script = "video" /\ shouldBlur) =>
        \A F \in SourceFiles :
            (\E D \in FoldersAbove(F) : ~shouldBlurFolder(D)) =>
                /\ \A t \in inflight : t.filePath = F => ~t.blur
                /\ \A p \in OutputsOf(F) : ~outFiles[p].blurred

\* An image two folders deep was optimized without blur although its own
\* folder and its own name allow blur: the folder above refuses it.
C1_Witness ==
    /\ script = "video" /\ shouldBlur
    /\ \E F \in SourceFiles :
         /\ Len(F) = 4
         /\ ~shouldBlurFolder(SubSeq(F, 1, 2))
         /\ shouldBlurFolder(SubSeq(F, 1, 3))
         /\ shouldBlurFile(F)
         /\ mirrored(F) \in DOMAIN outFiles
         /\ outFiles[mirrored(F)].how = "optimized"
         /\ outFiles[mirrored(F)].from = F
         /\ ~outFiles[mirrored(F)].blurred

\* C2: every nested call holds parentBlurAllowed = blur flag AND the
\* enclosing call's parentBlurAllowed AND shouldBlurFolder(its directory);
\* so down a chain of calls the value never turns from false to true, and
\* without the blur flag it is false in every nested call.
C2_BlurThreading ==
    /\ \A i \in 2 .. Len(stack) :
         /\ stack[i].applyBlur = shouldBlur
         /\ stack[i].parentBlurAllowed =
              (shouldBlur /\ stack[i - 1].parentBlurAllowed
                 /\ shouldBlurFolder(stack[i].source))
    /\ \A i \in 1 .. Len(stack) : \A j \in i .. Len(stack) :
         ~stack[i].parentBlurAllowed => ~stack[j].parentBlurAllowed
    /\ ~shouldBlur => \A i \in 2 .. Len(stack) : ~stack[i].parentBlurAllowed

\* A call two folders deep whose folder allows blur under --blur, below a
\* folder that refuses it.
C2_Witness ==
    /\ shouldBlur
    /\ Len(stack) = 3
    /\ ~stack[2].parentBlurAllowed
    /\ shouldBlurFolder(stack[3].source)
    /\ ~stack[3].parentBlurAllowed

\* C3: a blurred image has shouldBlurFile true and shouldBlurFolder true for
\* the folder that holds it, the assets root included.
C3_BlurNeedsFolderAndFile ==
    \A p \in DOMAIN outFiles :
        outFiles[p].blurred =>
            /\ shouldBlurFile(outFiles[p].from)
            /\ shouldBlurFolder(dirname(outFiles[p].from))

\* C4: in the video-capable walker, once an excluded folder D is met, its
\* mirror exists and every file beneath it (hidden entries apart) is at its
\* mirrored path as an unmodified copy, no predicate having been evaluated
\* and no transform started inside D.
C4_ExcludedFolderRawCopy ==
    script = "video" =>
        \A D \in Dirs :
            ([fn |-> "shouldProcessFolder", path |-> D] \in evaluated
               /\ ~shouldProcessFolder(D)) =>
                /\ mirrored(D) \in outDirs
                /\ \A F \in VisibleFilesUnder(D) :
                     /\ mirrored(F) \in DOMAIN outFiles
                     /\ outFiles[mirrored(F)] = Copied(F)
                     /\ OutputsOf(F) = {mirrored(F)}
                /\ \A e \in evaluated : ~Beneath(D, e.path)
                /\ \A t \in inflight : ~Beneath(D, t.filePath)

\* An excluded folder was copied with a nested folder, an image and a file
\* that shouldProcessFile refuses in it, under --blur.
C4_Witness ==
    /\ script = "video" /\ shouldBlur
    /\ \E D \in Dirs :
         /\ [fn |-> "shouldProcessFolder", path |-> D] \in evaluated
         /\ ~shouldProcessFolder(D)
         /\ \E F \in VisibleFilesUnder(D) :
              Len(F) > Len(D) + 1 /\ outFiles[mirrored(F)] = Copied(F)
         /\ \E F \in VisibleFilesUnder(D) :
              ~shouldProcessFile(F) /\ outFiles[mirrored(F)] = Copied(F)
         /\ \E F \in VisibleFilesUnder(D) :
              /\ includes(config.extensions.processable,
                          toLowerCase(extname(F)))
              /\ shouldBlurFile(F)
              /\ outFiles[mirrored(F)] = Copied(F)

\* The claim's "not processable": the name is in files.exclude, or the
\* lower-cased extension is in extensions.exclude, or files.include is
\* non-empty and does not hold the name.
NotProcessable(F) ==
    \/ basename(F) \in Range(config.files.exclude)
    \/ toLowerCase(extname(F)) \in Range(config.extensions.exclude)
    \/ /\ Range(config.files.include) # {}
       /\ basename(F) \notin Range(config.files.include)

\* C5 as stated: after the walk, no file that is not processable is in the
\* output tree, wherever it lies.
C5_ExcludedFileNowhere ==
    pc = "done" =>
        \A F \in SourceFiles : NotProcessable(F) => OutputsOf(F) = {}

\* C5 as amended: a file that is not processable is in the output tree only
\* beneath a folder that shouldProcessFolder refuses and that the
\* video-capable walker copied raw, as an unmodified copy.
C5_ExcludedFileOnlyInRawCopy ==
    \A F \in SourceFiles :
        (NotProcessable(F) /\ OutputsOf(F) # {}) =>
            /\ script = "video"
            /\ \E D \in FoldersAbove(F) :
                 /\ ~shouldProcessFolder(D)
                 /\ Logged("copyingExcludedFolder", D)
            /\ OutputsOf(F) = {mirrored(F)}
            /\ outFiles[mirrored(F)] = Copied(F)

\* The walk ended having skipped a file whose upper-case extension is
\* excluded in lower case, with nothing of it in the output tree.
C5_Witness ==
    /\ pc = "done"
    /\ \E F \in SourceFiles :
         /\ extname(F) # toLowerCase(extname(F))
         /\ includes(config.extensions.exclude, toLowerCase(extname(F)))
         /\ Logged("skippingExcludedFile", F)
         /\ OutputsOf(F) = {}

\* C6: shouldProcessFolder(N) is (N in folders.include) when that list is
\* non-empty and (N not in folders.exclude) otherwise; a name in both lists
\* is processable when include is non-empty.
C6_FolderRule ==
    \A D \in Dirs :
        shouldProcessFolder(D) =
            IF Range(config.folders.include) # {}
            THEN basename(D) \in Range(config.folders.include)
            ELSE basename(D) \notin Range(config.folders.exclude)

\* The walker is inside a folder whose name is in both lists.
C6_Witness ==
    /\ Len(stack) > 1
    /\ basename(Top.source) \in Range(config.folders.include)
    /\ basename(Top.source) \in Range(config.folders.exclude)

\* C7: shouldProcessFile is false when the name is in files.exclude or the
\* lower-cased extension is in extensions.exclude, even for a name in
\* files.include; otherwise it is (name in files.include) when that list is
\* non-empty, and true when it is empty.
C7_FileRule ==
    \A F \in SourceFiles :
        shouldProcessFile(F) =
            IF \/ basename(F) \in Range(config.files.exclude)
               \/ toLowerCase(extname(F)) \in Range(config.extensions.exclude)
            THEN FALSE
            ELSE IF Range(config.files.include) # {}
                 THEN basename(F) \in Range(config.files.include)
                 ELSE TRUE

\* A file named in both files.include and files.exclude was skipped.
C7_Witness ==
    \E F \in SourceFiles :
        /\ basename(F) \in Range(config.files.include)
        /\ basename(F) \in Range(config.files.exclude)
        /\ Logged("skippingExcludedFile", F)
        /\ OutputsOf(F) = {}

\* C8: shouldBlurFolder and shouldBlurFile are the folder rule and the file
\* rule (without the extension check) on the blur.* lists alone: folders.*,
\* files.* and extensions.* have no part in them.
C8_BlurRules ==
    /\ \A D \in Dirs :
         shouldBlurFolder(D) =
            IF Range(config.blur.folders.include) # {}
            THEN basename(D) \in Range(config.blur.folders.include)
            ELSE basename(D) \notin Range(config.blur.folders.exclude)
    /\ \A F \in SourceFiles :
         shouldBlurFile(F) =
            IF basename(F) \in Range(config.blur.files.exclude) THEN FALSE
            ELSE IF Range(config.blur.files.include) # {}
                 THEN basename(F) \in Range(config.blur.files.include)
                 ELSE TRUE

\* An image was blurred in a run whose processing lists differ from the
\* blur lists: files.include names it and blur.files.include is empty, and
\* a folder that the processing policy refuses is allowed blur.
C8_Witness ==
    /\ \E p \in DOMAIN outFiles :
         /\ outFiles[p].blurred
         /\ basename(outFiles[p].from) \in Range(config.files.include)
         /\ Range(config.blur.files.include) = {}
    /\ \E D \in Dirs : ~shouldProcessFolder(D) /\ shouldBlurFolder(D)

LoggedNext(ev, F) == [ev |-> ev, path |-> F] \in events'

\* C9: when a started transcode fails, the original is copied unmodified to
\* the nominal target path, processVideo resolves and the walk goes on to
\* the next entry.
C9_TranscodeFallback ==
    [][\A F \in SourceFiles :
         (~Logged("errorProcessingVideo", F)
            /\ LoggedNext("errorProcessingVideo", F)) =>
             /\ mirrored(F) \in DOMAIN outFiles'
             /\ outFiles'[mirrored(F)] = Copied(F)
             /\ \A t \in inflight' : t.filePath # F
             /\ pc' = "walk"
             /\ stack' = Advance(stack)]_vars

\* C10: when the probe of a video fails or finds no video stream, no
\* transcode is started, the mirrored path holds an unmodified copy and the
\* walk continues with the next entry.
C10_ProbeFallback ==
    [][\A F \in SourceFiles :
         (\E ev \in {"errorGettingVideoMetadata", "noVideoStream"} :
              ~Logged(ev, F) /\ LoggedNext(ev, F)) =>
             /\ \A t \in inflight' : t.filePath # F
             /\ mirrored(F) \in DOMAIN outFiles'
             /\ outFiles'[mirrored(F)] = Copied(F)
             /\ pc' = "walk"
             /\ stack' = Advance(stack)]_vars

\* No name on the way from the assets root down to p starts with a dot.
NoHiddenName(p) == \A k \in 2 .. Len(p) : p[k][1] # "."

\* C11: when the metadata read or the transform of an optimizable image
\* fails, the failure is logged, nothing is written for that image (no
\* fallback copy, then or later in the run), and the walk goes on with the
\* next entry of the same directory and with the directories that remain.
C11_ImageFailureSkips ==
    /\ [][\A F \in SourceFiles :
            (~Logged("errorProcessing", F)
               /\ LoggedNext("errorProcessing", F)) =>
                /\ outFiles' = outFiles
                /\ \A t \in inflight' : t.filePath # F
                /\ (script = "video") =>
                      (pc' = "walk" /\ stack' = Advance(stack))
                /\ (script = "optimize") => UNCHANGED <<pc, stack>>]_vars
    /\ [](\A F \in SourceFiles :
            Logged("errorProcessing", F) => OutputsOf(F) = {})

\* The video-capable walk ended: an image of a folder failed into an
\* existing directory and left nothing, and an image of a folder visited
\* later was optimized.
C11_Witness ==
    /\ script = "video"
    /\ pc = "done"
    /\ \E F \in SourceFiles, G \in SourceFiles :
         /\ Len(F) = 3 /\ Len(G) = 4
         /\ Logged("errorProcessing", F)
         /\ dirname(mirrored(F)) \in outDirs
         /\ OutputsOf(F) = {}
         /\ Logged("optimized", G)
         /\ OutputsOf(G) = {mirrored(G)}

\* The run is over: the walk returned, was aborted or the process died, and
\* no transform is left.
RunEnded == pc \in {"done", "buildError", "crashed"} /\ inflight = {}

\* C12: every file given to the optimize or the transcode strategy whose
\* transformation failed has, at the end of the run, an unmodified copy at
\* its target path, and the walk was not aborted.
C12_FailuresDegradeToCopy ==
    RunEnded =>
        \A F \in SourceFiles :
            (Logged("errorProcessing", F) \/ Logged("errorProcessingVideo", F)) =>
                /\ pc = "done"
                /\ mirrored(F) \in DOMAIN outFiles
                /\ outFiles[mirrored(F)] = Copied(F)

\* The exit status of the process: build() catches what the walk throws and
\* returns, so the process ends with 0; an exception thrown inside the
\* ffprobe callback is caught by nothing and ends the process with 1.
exitStatus == IF pc = "crashed" THEN 1 ELSE 0

\* File F reached a terminal outcome: it was written (the output holds it, or
\* its write was logged and a later write replaced it), or it was skipped
\* (itself, or with the excluded folder it lies in), or its failure was
\* logged.
HasOutcome(F) ==
    \/ OutputsOf(F) # {}
    \/ \E ev \in {"optimized", "videoProcessed", "skippingExcludedFile",
                  "errorProcessing", "errorProcessingVideo",
                  "errorGettingVideoMetadata", "noVideoStream"} :
         Logged(ev, F)
    \/ \E D \in FoldersAbove(F) :
         Logged("skippingExcludedFolder", D) \/ Logged("copyingExcludedFolder", D)

\* C13: whatever single file fails, the exit status stays 0 and, once the
\* run is over, every other file of the source tree that is not hidden has
\* reached its terminal outcome.
C13_FailureNeverBlocksWalk ==
    /\ exitStatus = 0
    /\ RunEnded =>
         \A F \in SourceFiles :
             NoHiddenName(F) =>
                 \/ HasOutcome(F)
                 \/ Logged("buildError", F)
                 \/ Logged("uncaughtException", F)

\* C14: in the video-capable walker at most one transform is in flight at
\* any instant; it belongs to the entry the walker is at, the walker awaits
\* it, and no entry is dispatched while it lasts.
C14_OneTransformInFlight ==
    script = "video" =>
        /\ Cardinality(inflight) <= 1
        /\ inflight # {} <=> pc = "await"
        /\ \A t \in inflight :
             /\ Len(stack) > 0
             /\ t.filePath = join(Top.source, readdirSync(Top.source)[Top.i])

\* A transcode is in flight two calls deep, after an image of the same
\* folder was optimized and a video of the root was transcoded.
C14_Witness ==
    /\ script = "video"
    /\ Len(stack) = 2
    /\ \E t \in inflight : t.kind = "video" /\ t.phase = "transcode"
    /\ \E F \in SourceFiles : Len(F) = 3 /\ Logged("optimized", F)
    /\ \E F \in SourceFiles : Len(F) = 2 /\ Logged("videoProcessed", F)

\* C15: in either walker, when the top-level walk call made by build() has
\* returned or resolved, no transform is in flight and every file of the
\* source tree that is not hidden has its terminal outcome.
C15_AllTerminalAtReturn ==
    pc = "done" =>
        /\ inflight = {}
        /\ \A F \in SourceFiles : NoHiddenName(F) => HasOutcome(F)

\* The claim's "classified as video": the lower-cased extension is in
\* extensions.videoProcessable and not in extensions.processable.
ClassifiedVideo(F) ==
    /\ toLowerCase(extname(F)) \in Range(config.extensions.videoProcessable)
    /\ toLowerCase(extname(F)) \notin Range(config.extensions.processable)

\* C16: with video.enableProcessing false, no probe and no transcode is ever
\* started, and every video the walker has handled is at its mirrored path
\* as an unmodified copy, whatever preserveFormat, enableResize and the
\* quality settings are.
C16_DisabledProcessingCopies ==
    (script = "video" /\ ~config.video.enableProcessing) =>
        /\ \A t \in inflight : t.kind # "video"
        /\ \A F \in SourceFiles :
             ( /\ ClassifiedVideo(F)
               /\ ~NotProcessable(F)
               /\ [fn |-> "shouldProcessFile", path |-> F] \in evaluated ) =>
                 /\ mirrored(F) \in DOMAIN outFiles
                 /\ outFiles[mirrored(F)] = Copied(F)
                 /\ OutputsOf(F) = {mirrored(F)}

\* C17: whenever a file is being written, the directory that contains the
\* write target exists: the target of every toFile and of every ffmpeg run
\* in flight lies in an existing directory, and no copy has failed for want
\* of its directory (the walker's copy throwing into build(), the copy of
\* the ffprobe callback throwing uncaught, the transcode fallback's copy
\* failing).
C17_DirectoryBeforeWrite ==
    /\ \A t \in inflight :
         t.phase \in {"toFile", "transcode"} => dirname(t.outputFile) \in outDirs
    /\ \A e \in events :
         e.ev \notin {"buildError", "uncaughtException", "failedToCopyVideo"}

\* C18: when the second of two runs in a row is over, the output tree is
\* exactly the one the first run ended with: the same files, each with the
\* same outcome.
C18_Idempotent ==
    (Len(runs) = 1 /\ RunEnded) => outFiles = runs[1]

\* C19: no step of a run writes an output path that holds a file written
\* from a different source file: two source files never share an output
\* path, whatever video.preserveFormat and formats.outputFormat are.
C19_DistinctOutputPaths ==
    [][\A p \in DOMAIN outFiles :
         p \in DOMAIN outFiles' => outFiles'[p].from = outFiles[p].from]_vars

\* C20: nothing hidden is ever visited or written: no output directory or
\* file has a name below dist/assets that starts with a dot, in processed
\* folders and in raw-copied excluded folders alike; no predicate is
\* evaluated, no transform started and no call made on a path with such a
\* name; and nothing is written from a file that is hidden or lies beneath a
\* hidden directory.
C20_HiddenSkipped ==
    /\ \A p \in (DOMAIN outFiles) \cup outDirs :
         \A k \in 3 .. Len(p) : p[k][1] # "."
    /\ \A e \in evaluated : NoHiddenName(e.path)
    /\ \A t \in inflight : NoHiddenName(t.filePath)
    /\ \A i \in 1 .. Len(stack) : NoHiddenName(stack[i].source)
    /\ \A F \in SourceFiles : ~NoHiddenName(F) => OutputsOf(F) = {}

\* The video-capable walk ended: it copied an excluded folder raw, leaving
\* out the hidden file in it, and wrote nothing from the file beneath the
\* hidden directory of the root.
C20_Witness ==
    /\ script = "video"
    /\ pc = "done"
    /\ \E D \in Dirs :
         /\ Logged("copyingExcludedFolder", D)
         /\ \E F \in SourceFiles :
              Beneath(D, F) /\ basename(F)[1] = "." /\ OutputsOf(F) = {}
         /\ \E G \in SourceFiles :
              /\ Beneath(D, G)
              /\ mirrored(G) \in DOMAIN outFiles
              /\ outFiles[mirrored(G)] = Copied(G)
    /\ \E F \in SourceFiles :
         Len(F) = 3 /\ F[2][1] = "." /\ OutputsOf(F) = {}

\* The name of file F up to its extension.
Stem(F) == SubSeq(basename(F), 1, LastDot(basename(F)) - 1)

\* The ffmpeg runs started and not over, and the videos they wrote: the
\* source, the file written and the command of each.
Transcodes ==
    { [from |-> t.filePath, to |-> t.outputFile, command |-> t.command] :
        t \in {u \in inflight : u.phase = "transcode"} }
    \cup
    { [from |-> outFiles[p].from, to |-> p, command |-> outFiles[p].command] :
        p \in {q \in DOMAIN outFiles : outFiles[q].how = "transcoded"} }

\* C21: for every transcode, with preserveFormat the video is written to its
\* mirrored path, extension kept, with VP9 for .webm, H.264 for .mp4 and the
\* configured codec for any other extension (compared in lower case);
\* without it, with the configured codec to the mirrored path whose
\* extension is replaced by the configured output format.
C21_FormatAndCodec ==
    \A x \in Transcodes :
        LET ext == toLowerCase(extname(x.from))
        IN  IF config.video.preserveFormat
            THEN /\ x.to = mirrored(x.from)
                 /\ extname(x.to) = extname(x.from)
                 /\ x.command.codec =
                      (CASE ext = e_webm -> "libvpx-vp9"
                         [] ext = e_mp4 -> "libx264"
                         [] OTHER -> config.video.formats.codec)
            ELSE /\ x.command.codec = config.video.formats.codec
                 /\ dirname(x.to) = dirname(mirrored(x.from))
                 /\ basename(x.to) =
                      Stem(x.from) \o <<".">> \o config.video.formats.outputFormat

\* With preserveFormat and VP9 as the configured codec, a .mp4 was
\* transcoded with H.264, a .webm with VP9 and a .MOV with the configured
\* codec, each under its own name.
C21_Witness ==
    /\ config.video.preserveFormat
    /\ config.video.formats.codec = "libvpx-vp9"
    /\ \E x \in Transcodes : extname(x.from) = e_mp4 /\ x.command.codec = "libx264"
    /\ \E x \in Transcodes : extname(x.from) = e_webm
    /\ \E x \in Transcodes :
         /\ extname(x.from) # toLowerCase(extname(x.from))
         /\ x.command.codec = "libvpx-vp9"
         /\ x.to = mirrored(x.from)

\* C22 as stated: every transcode is given the configured CRF and the
\* configured preset whatever its codec, the configured bitrate exactly
\* when one is configured and the codec is not VP9, and row multithreading
\* exactly when the codec is VP9.
C22_CrfAndPresetAlways ==
    \A x \in Transcodes :
        /\ x.command.crf = config.video.quality.crf
        /\ x.command.preset = config.video.quality.preset
        /\ x.command.bitrate =
             (IF config.video.quality.bitrate # ""
                 /\ x.command.codec # "libvpx-vp9"
              THEN config.video.quality.bitrate ELSE "")
        /\ x.command.rowMt <=> (x.command.codec = "libvpx-vp9")

\* C22 as amended: every transcode is given the configured CRF; the
\* configured preset exactly when the codec is not VP9; the configured
\* bitrate exactly when one is configured and the codec is not VP9; the CRF
\* mode (-b:v 0) and row multithreading exactly when the codec is VP9.
C22_PresetUnlessVP9 ==
    \A x \in Transcodes :
        /\ x.command.crf = config.video.quality.crf
        /\ x.command.preset =
             (IF x.command.codec # "libvpx-vp9"
              THEN config.video.quality.preset ELSE "")
        /\ x.command.bitrate =
             (IF config.video.quality.bitrate # ""
                 /\ x.command.codec # "libvpx-vp9"
              THEN config.video.quality.bitrate ELSE "")
        /\ x.command.crfMode <=> (x.command.codec = "libvpx-vp9")
        /\ x.command.rowMt <=> (x.command.codec = "libvpx-vp9")

\* With a bitrate configured, a VP9 transcode runs or ran without preset and
\* bitrate, and an H.264 transcode with both.
C22_Witness ==
    /\ config.video.quality.bitrate # ""
    /\ \E x \in Transcodes :
         /\ x.command.codec = "libvpx-vp9"
         /\ x.command.preset = "" /\ x.command.bitrate = ""
         /\ x.command.rowMt
    /\ \E x \in Transcodes :
         /\ x.command.codec = "libx264"
         /\ x.command.preset = config.video.quality.preset
         /\ x.command.bitrate = config.video.quality.bitrate
         /\ ~x.command.rowMt

BothEnded == Len(runs) = 1 /\ script = "video" /\ RunEnded

NamedInInclude(D) == basename(D) \in Range(config.folders.include)

\* C25: with a non-empty folders.include, an image is optimized only if
\* every folder above it, below the assets root, is named in the list;
\* nothing is evaluated for a folder that lies beneath a folder not named in
\* it, whatever its own name; and the video-capable walker raw-copies every
\* folder it meets that is not named in the list, with all that lies
\* beneath.
C25_FolderPolicyEveryDepth ==
    Range(config.folders.include) # {} =>
        /\ \A p \in DOMAIN outFiles :
             outFiles[p].how = "optimized" =>
                 \A D \in FoldersAbove(outFiles[p].from) : NamedInInclude(D)
        /\ \A t \in inflight :
             \A D \in FoldersAbove(t.filePath) : NamedInInclude(D)
        /\ \A D \in Dirs :
             (\E A \in FoldersAbove(D) : ~NamedInInclude(A)) =>
                 /\ \A e \in evaluated : e.path # D
                 /\ \A i \in 1 .. Len(stack) : stack[i].source # D
        /\ script = "video" =>
             \A D \in Dirs :
                 ( /\ Len(D) > 1
                   /\ ~NamedInInclude(D)
                   /\ [fn |-> "shouldProcessFolder", path |-> D] \in evaluated ) =>
                     /\ mirrored(D) \in outDirs
                     /\ \A F \in VisibleFilesUnder(D) :
                          /\ mirrored(F) \in DOMAIN outFiles
                          /\ outFiles[mirrored(F)] = Copied(F)

\* With a non-empty folders.include the video-capable walk ended: an image
\* of an included folder was optimized, the image of a subfolder not named
\* in the list was raw-copied, and so was the image of a folder that is
\* named in the list and lies beneath a folder that is not.
C25_Witness ==
    /\ script = "video"
    /\ pc = "done"
    /\ Range(config.folders.include) # {}
    /\ \E p \in DOMAIN outFiles :
         /\ outFiles[p].how = "optimized"
         /\ Len(outFiles[p].from) = 3
    /\ \E F \in SourceFiles :
         /\ Len(F) = 4
         /\ NamedInInclude(SubSeq(F, 1, 2)) /\ ~NamedInInclude(SubSeq(F, 1, 3))
         /\ mirrored(F) \in DOMAIN outFiles
         /\ outFiles[mirrored(F)] = Copied(F)
    /\ \E F \in SourceFiles :
         /\ Len(F) = 4
         /\ ~NamedInInclude(SubSeq(F, 1, 2)) /\ NamedInInclude(SubSeq(F, 1, 3))
         /\ mirrored(F) \in DOMAIN outFiles
         /\ outFiles[mirrored(F)] = Copied(F)

====
